---- MODULE Spec2Model ----
(***************************************************************************)
(* A model of the SCOAP metric generator of src/codes/scoap.py:            *)
(*   expand_vector, parse_sections, extract_wires, build_controllability   *)
(*   and build_observability.                                              *)
(*                                                                         *)
(* Text (tokens, lines, gate kinds, net names) is modelled as TLA+ strings,*)
(* read character by character with SubSeq, Len and \o.                    *)
(* The sentinel math.inf is the value Inf; every sum, minimum and          *)
(* comparison goes through Plus, MinOf and Less, which treat it as Python  *)
(* treats float('inf') against ints.                                       *)
(*                                                                         *)
(* Three specifications share the variables:                               *)
(*   SpecExpand  one call of expand_vector on a token;                     *)
(*   SpecParse   one call of parse_sections, one step per line;            *)
(*   Spec        build_controllability followed by build_observability,    *)
(*               one step per gate visited in a sweep.                     *)
(***************************************************************************)
EXTENDS Integers, Sequences, FiniteSets, TLC

VARIABLES
    pc,        \* position of the running function
    signal,    \* expand_vector: its argument
    result,    \* expand_vector: the list it returns
    lines,     \* parse_sections: its argument
    lineno,    \* parse_sections: index of the next line (enumerate, start=1)
    section,   \* parse_sections: the active section
    inputs,    \* primary inputs, in order
    outputs,   \* primary outputs, in order
    gates,     \* list of gate records (gtype, o, ins)
    fanout_list, \* parse_sections: the (net, driven outputs) pairs it returns
    nets,      \* extract_wires: the net universe
    CC0, CC1,  \* build_controllability: the two maps
    CO,        \* build_observability: the map
    changed,   \* the `changed` flag of the running relaxation
    gi         \* index of the next gate of the running sweep

vars == <<pc, signal, result, lines, lineno, section, inputs, outputs, gates,
          fanout_list, nets, CC0, CC1, CO, changed, gi>>

(***************************************************************************)
(* Bounds of the model.                                                    *)
(***************************************************************************)
MaxIdx == 11

MaxLines == 4

MaxGates == 3

(***************************************************************************)
(* Characters and text.                                                    *)
(***************************************************************************)
Char(s, k) == SubSeq(s, k, k)

From(s, k) == SubSeq(s, k, Len(s))

LowerLetters == "abcdefghijklmnopqrstuvwxyz"

UpperLetters == "ABCDEFGHIJKLMNOPQRSTUVWXYZ"

Digits == "0123456789"

CharsOf(s) == { Char(s, k) : k \in 1..Len(s) }

LowerChars == CharsOf(LowerLetters)

WordChars == LowerChars \cup CharsOf(UpperLetters) \cup CharsOf(Digits) \cup {"_"}

DigitChars == CharsOf(Digits)

\* \w of the re module, on ASCII text
IsWordChar(c) == c \in WordChars

\* \d of the re module, on ASCII text
IsDigitChar(c) == c \in DigitChars

\* \s of the re module and the separators of str.split(), on the text a line holds
IsSpaceChar(c) == c \in {" ", "\t"}

\* `sub in s` on strings
Contains(sub, s) == \E k \in 1..(Len(s) - Len(sub) + 1) : SubSeq(s, k, k + Len(sub) - 1) = sub

\* s.startswith(p)
StartsWith(s, p) == Len(s) >= Len(p) /\ SubSeq(s, 1, Len(p)) = p

\* The upper-case letter of each lower-case letter
UpperOf == [c \in LowerChars |->
              Char(UpperLetters, CHOOSE k \in 1..Len(LowerLetters) : Char(LowerLetters, k) = c)]

UpperChar(c) == IF c \in LowerChars THEN UpperOf[c] ELSE c

\* str.upper(): the characters from position k on, in upper case
RECURSIVE UpperFrom(_, _)
UpperFrom(s, k) == IF k > Len(s) THEN "" ELSE UpperChar(Char(s, k)) \o UpperFrom(s, k + 1)

Upper(s) == UpperFrom(s, 1)

\* Length of the longest prefix of s whose characters are all of one class:
\* what a greedy X+ or X* takes when the next item of the pattern cannot be an X.
WordPrefixLen(s) ==
    CHOOSE n \in 0..Len(s) :
        /\ \A j \in 1..n : IsWordChar(Char(s, j))
        /\ (n = Len(s) \/ ~IsWordChar(Char(s, n + 1)))

DigitPrefixLen(s) ==
    CHOOSE n \in 0..Len(s) :
        /\ \A j \in 1..n : IsDigitChar(Char(s, j))
        /\ (n = Len(s) \/ ~IsDigitChar(Char(s, n + 1)))

SpacePrefixLen(s) ==
    CHOOSE n \in 0..Len(s) :
        /\ \A j \in 1..n : IsSpaceChar(Char(s, j))
        /\ (n = Len(s) \/ ~IsSpaceChar(Char(s, n + 1)))

DigitValue(c) == (CHOOSE k \in 1..Len(Digits) : Char(Digits, k) = c) - 1

\* int() of the first k characters of a string of decimal digits
RECURSIVE StrToIntUpTo(_, _)
StrToIntUpTo(s, k) ==
    IF k = 0 THEN 0 ELSE 10 * StrToIntUpTo(s, k - 1) + DigitValue(Char(s, k))

\* int(s) on a string of decimal digits
StrToInt(s) == StrToIntUpTo(s, Len(s))

\* str(i), as an f-string formats a non-negative int
RECURSIVE IntToStr(_)
IntToStr(n) ==
    IF n < 10 THEN Char(Digits, n + 1)
    ELSE IntToStr(n \div 10) \o Char(Digits, (n % 10) + 1)

\* str.split() from position k on: the maximal runs of non-space characters, in order
RECURSIVE SplitFrom(_, _)
SplitFrom(s, k) ==
    IF k > Len(s) THEN << >>
    ELSE IF IsSpaceChar(Char(s, k)) THEN SplitFrom(s, k + 1)
    ELSE LET e == CHOOSE m \in k..Len(s) :
                     /\ \A j \in k..m : ~IsSpaceChar(Char(s, j))
                     /\ (m = Len(s) \/ IsSpaceChar(Char(s, m + 1)))
         IN  << SubSeq(s, k, e) >> \o SplitFrom(s, e + 1)

Split(s) == SplitFrom(s, 1)

(***************************************************************************)
(* expand_vector                                                           *)
(***************************************************************************)
\* VECTOR_RE.match(signal): ^(\w+)\[(\d+):(\d+)\]$
VectorMatch(s) ==
    LET b  == WordPrefixLen(s)
        r1 == From(s, b + 1)
        d1 == DigitPrefixLen(From(r1, 2))
        r2 == From(r1, d1 + 2)
        d2 == DigitPrefixLen(From(r2, 2))
        r3 == From(r2, d2 + 2)
    IN  IF /\ b >= 1
           /\ StartsWith(r1, "[") /\ d1 >= 1
           /\ StartsWith(r2, ":") /\ d2 >= 1
           /\ r3 = "]"
        THEN [ok |-> TRUE, base |-> SubSeq(s, 1, b),
              msb |-> StrToInt(SubSeq(r1, 2, d1 + 1)),
              lsb |-> StrToInt(SubSeq(r2, 2, d2 + 1))]
        ELSE [ok |-> FALSE, base |-> "", msb |-> 0, lsb |-> 0]

\* The stop argument of the range of line 25
RangeStop(lsb, step) == lsb - step

\* list(range(start, stop, step)) for step = 1 or step = -1
RECURSIVE Range(_, _, _)
Range(start, stop, step) ==
    IF (step > 0 /\ start < stop) \/ (step < 0 /\ start > stop)
    THEN << start >> \o Range(start + step, stop, step)
    ELSE << >>

ExpandVector(s) ==
    LET m == VectorMatch(s) IN
    IF ~m.ok THEN << s >>
    ELSE LET step == IF m.msb >= m.lsb THEN -1 ELSE 1
             r    == Range(m.msb, RangeStop(m.lsb, step), step)
         IN  [k \in 1..Len(r) |-> m.base \o "[" \o IntToStr(r[k]) \o "]"]

\* The tokens expand_vector is called on
Bases == {"A", "bus_1"}

VectorTokens ==
    { b \o "[" \o IntToStr(m) \o ":" \o IntToStr(l) \o "]" :
        b \in Bases, m \in 0..MaxIdx, l \in 0..MaxIdx }

PlainTokens == {"A", "clk", "A[3]", "A[3:]", "A[:0]", "[3:0]", "A[3:0]x", "A[x:0]", "A-B[1:0]", "A[3:0"}

Tokens == VectorTokens \cup PlainTokens

Idle ==
    /\ lines = << >> /\ lineno = 1 /\ section = "None"
    /\ inputs = << >> /\ outputs = << >> /\ gates = << >> /\ fanout_list = << >>
    /\ nets = {} /\ CC0 = << >> /\ CC1 = << >> /\ CO = << >>
    /\ changed = FALSE /\ gi = 1

InitExpand ==
    /\ pc = "expand_call"
    /\ signal \in Tokens
    /\ result = << >>
    /\ Idle

ExpandCall ==
    /\ pc = "expand_call"
    /\ result' = ExpandVector(signal)
    /\ pc' = "expand_ret"
    /\ UNCHANGED <<signal, lines, lineno, section, inputs, outputs, gates,
                   fanout_list, nets, CC0, CC1, CO, changed, gi>>

NextExpand == ExpandCall

SpecExpand == InitExpand /\ [][NextExpand]_vars

(***************************************************************************)
(* parse_sections                                                          *)
(***************************************************************************)
\* A variant in which an unrecognised header opens the gate section
HeaderSectionGatesElse(line) ==
    IF Contains("Primary Inputs", line) THEN "INPUT"
    ELSE IF Contains("Primary Outputs", line) THEN "OUTPUT"
    ELSE "GATES"

\* The section a header line selects (lines 40-43)
HeaderSection(line) ==
    IF Contains("Primary Inputs", line) THEN "INPUT"
    ELSE IF Contains("Primary Outputs", line) THEN "OUTPUT"
    ELSE IF Contains("Complete Paths", line) THEN "GATES"
    ELSE "None"

\* Position of the first ")" of s, 0 when it has none: where [^)]+ must stop
FirstClose(s) ==
    IF \E k \in 1..Len(s) : Char(s, k) = ")"
    THEN CHOOSE k \in 1..Len(s) : Char(s, k) = ")" /\ \A j \in 1..(k - 1) : Char(s, j) # ")"
    ELSE 0

NoGate == [ok |-> FALSE, gtype |-> "", outs |-> << >>, ins |-> << >>]

\* A variant of the pattern whose in(...) part is optional
GateMatchOptionalIn(line) ==
    LET s0 == From(line, SpacePrefixLen(line) + 1)
        w  == WordPrefixLen(s0)
        s1 == From(s0, w + 1)
        s2 == From(s1, SpacePrefixLen(s1) + 1)
        s3 == From(s2, 5)
        c1 == FirstClose(s3)
    IN  IF w >= 1 /\ SpacePrefixLen(s1) >= 1 /\ StartsWith(s2, "out(") /\ c1 >= 2
        THEN [ok |-> TRUE, gtype |-> SubSeq(s0, 1, w),
              outs |-> Split(SubSeq(s3, 1, c1 - 1)), ins |-> << >>]
        ELSE NoGate

\* GATE_RE.match(line): ^\s*(\w+)\s+out\(\s*([^)]+)\)\s+in\(\s*([^)]+)\)\s*$
\* with group 2 and group 3 split into nets (lines 52-54)
GateMatch(line) ==
    LET s0 == From(line, SpacePrefixLen(line) + 1)
        w  == WordPrefixLen(s0)
        s1 == From(s0, w + 1)
        s2 == From(s1, SpacePrefixLen(s1) + 1)
        s3 == From(s2, 5)
        c1 == FirstClose(s3)
        s4 == From(s3, c1 + 1)
        s5 == From(s4, SpacePrefixLen(s4) + 1)
        s6 == From(s5, 4)
        c2 == FirstClose(s6)
        s7 == From(s6, c2 + 1)
    IN  IF /\ w >= 1
           /\ SpacePrefixLen(s1) >= 1 /\ StartsWith(s2, "out(") /\ c1 >= 2
           /\ SpacePrefixLen(s4) >= 1 /\ StartsWith(s5, "in(") /\ c2 >= 2
           /\ SpacePrefixLen(s7) = Len(s7)
        THEN [ok |-> TRUE, gtype |-> SubSeq(s0, 1, w),
              outs |-> Split(SubSeq(s3, 1, c1 - 1)),
              ins  |-> Split(SubSeq(s6, 1, c2 - 1))]
        ELSE NoGate

Gate(t, out, inl) == [gtype |-> t, o |-> out, ins |-> inl]

\* A variant that keeps only the first listed output net
GateRecordsFirstOnly(m) ==
    IF Len(m.outs) = 0 THEN << >> ELSE << Gate(m.gtype, m.outs[1], m.ins) >>

\* The records that lines 55-56 append for a matched line
GateRecords(m) == [k \in 1..Len(m.outs) |-> Gate(m.gtype, m.outs[k], m.ins)]

\* expand_vector of each token from the k-th on, concatenated (lines 46, 48)
RECURSIVE ExpandFrom(_, _)
ExpandFrom(toks, k) ==
    IF k > Len(toks) THEN << >> ELSE ExpandVector(toks[k]) \o ExpandFrom(toks, k + 1)

ExpandAll(toks) == ExpandFrom(toks, 1)

\* One iteration of the loop of lines 38-58 on the parser's state
ParseStep(st, line) ==
    IF StartsWith(line, "#") THEN [st EXCEPT !.section = HeaderSection(line)]
    ELSE IF st.section = "INPUT" THEN [st EXCEPT !.inputs = @ \o ExpandAll(Split(line))]
    ELSE IF st.section = "OUTPUT" THEN [st EXCEPT !.outputs = @ \o ExpandAll(Split(line))]
    ELSE IF st.section = "GATES"
    THEN CHOOSE r \in { IF m.ok THEN [st EXCEPT !.gates = @ \o GateRecords(m)] ELSE st :
                          m \in { GateMatch(line) } } : TRUE
    ELSE st

ParseStart == [section |-> "None", inputs |-> << >>, outputs |-> << >>, gates |-> << >>]

\* The loop of lines 38-58 from line k on
RECURSIVE ParseFrom(_, _, _)
ParseFrom(ls, k, st) ==
    IF k > Len(ls) THEN st ELSE ParseFrom(ls, k + 1, ParseStep(st, ls[k]))

\* The inputs, outputs and gates that parse_sections returns
ParseSections(ls) == ParseFrom(ls, 1, ParseStart)

\* The (input, output) pairs of lines 61-62 from gate k, input j on, in order
RECURSIVE FanoutPairs(_, _, _)
FanoutPairs(gs, k, j) ==
    IF k > Len(gs) THEN << >>
    ELSE IF j > Len(gs[k].ins) THEN FanoutPairs(gs, k + 1, 1)
    ELSE << <<gs[k].ins[j], gs[k].o>> >> \o FanoutPairs(gs, k, j + 1)

\* list(fanouts.items()): a net at its first use as an input, with the
\* outputs appended for it, in order
FanoutList(gs) ==
    LET ps    == FanoutPairs(gs, 1, 1)
        first == SelectSeq([k \in 1..Len(ps) |-> k],
                           LAMBDA k : \A j \in 1..(k - 1) : ps[j][1] # ps[k][1])
        outsOf(n) == LET hit == SelectSeq(ps, LAMBDA q : q[1] = n)
                     IN  [k \in 1..Len(hit) |-> hit[k][2]]
    IN  [k \in 1..Len(first) |-> <<ps[first[k]][1], outsOf(ps[first[k]][1])>>]

\* The lines parse_sections is called on
LineCatalog ==
    { "# Primary Inputs",
      "# Primary Outputs",
      "# Complete Paths",
      "# FAN IN",
      "a b[2:0]",
      "AND out(d) in(a b)",
      "FA out(s co) in(a b c)",
      "INV out(c)",
      "OUTPUT d",
      "AND out( ) in(a)",
      " inv  out( c )\tin( a ) " }

LineLists == UNION { [1..n -> LineCatalog] : n \in 0..MaxLines }

InitParse ==
    /\ pc = "parse"
    /\ lines \in LineLists
    /\ lineno = 1
    /\ section = "None" /\ inputs = << >> /\ outputs = << >> /\ gates = << >>
    /\ fanout_list = << >>
    /\ signal = "" /\ result = << >>
    /\ nets = {} /\ CC0 = << >> /\ CC1 = << >> /\ CO = << >>
    /\ changed = FALSE /\ gi = 1

ParserState == [section |-> section, inputs |-> inputs, outputs |-> outputs, gates |-> gates]

\* The loop body on lines[lineno]
ParseApply ==
    /\ \E st \in { ParseStep(ParserState, lines[lineno]) } :
          /\ section' = st.section
          /\ inputs' = st.inputs
          /\ outputs' = st.outputs
          /\ gates' = st.gates
    /\ lineno' = lineno + 1
    /\ UNCHANGED <<pc, signal, result, lines, fanout_list, nets, CC0, CC1, CO, changed, gi>>

AtLine == pc = "parse" /\ lineno <= Len(lines)

\* A `#` line: the section is set and the line is done (lines 39-44)
ParseHeader == AtLine /\ StartsWith(lines[lineno], "#") /\ ParseApply

\* A line of the input section (lines 45-46)
ParseInputLine ==
    AtLine /\ ~StartsWith(lines[lineno], "#") /\ section = "INPUT" /\ ParseApply

\* A line of the output section (lines 47-48)
ParseOutputLine ==
    AtLine /\ ~StartsWith(lines[lineno], "#") /\ section = "OUTPUT" /\ ParseApply

\* A line of the gate section that GATE_RE matches (lines 49-56)
ParseGateLine ==
    /\ AtLine /\ ~StartsWith(lines[lineno], "#") /\ section = "GATES"
    /\ GateMatch(lines[lineno]).ok
    /\ ParseApply

\* A line of the gate section that GATE_RE does not match: the warning (lines 57-58)
ParseGateLineSkipped ==
    /\ AtLine /\ ~StartsWith(lines[lineno], "#") /\ section = "GATES"
    /\ ~GateMatch(lines[lineno]).ok
    /\ ParseApply

\* A line outside every section
ParseLineOutside ==
    AtLine /\ ~StartsWith(lines[lineno], "#") /\ section = "None" /\ ParseApply

\* The loop is over: the fanouts are rebuilt and the four lists returned (lines 59-64)
ParseReturn ==
    /\ pc = "parse" /\ lineno > Len(lines)
    /\ fanout_list' = FanoutList(gates)
    /\ pc' = "parsed"
    /\ UNCHANGED <<signal, result, lines, lineno, section, inputs, outputs, gates,
                   nets, CC0, CC1, CO, changed, gi>>

NextParse ==
    \/ ParseHeader
    \/ ParseInputLine
    \/ ParseOutputLine
    \/ ParseGateLine
    \/ ParseGateLineSkipped
    \/ ParseLineOutside
    \/ ParseReturn

SpecParse == InitParse /\ [][NextParse]_vars

(***************************************************************************)
(* Values of the metric maps: an integer, or the sentinel math.inf.        *)
(***************************************************************************)
Inf == -1

\* x + y
Plus(x, y) == IF x = Inf \/ y = Inf THEN Inf ELSE x + y

\* x < y
Less(x, y) == IF x = Inf THEN FALSE ELSE IF y = Inf THEN TRUE ELSE x < y

Min2(x, y) == IF Less(y, x) THEN y ELSE x

\* min of the elements k.. of a list
RECURSIVE MinFrom(_, _)
MinFrom(xs, k) == IF k = Len(xs) THEN xs[k] ELSE Min2(xs[k], MinFrom(xs, k + 1))

\* min(xs) of a non-empty list (min of an empty list raises ValueError)
MinOf(xs) == MinFrom(xs, 1)

\* sum of the elements k.. of a list
RECURSIVE SumFrom(_, _)
SumFrom(xs, k) == IF k > Len(xs) THEN 0 ELSE Plus(xs[k], SumFrom(xs, k + 1))

\* sum(xs); sum([]) is 0
SumOf(xs) == SumFrom(xs, 1)

\* n in xs, for a list xs
InList(n, xs) == \E k \in 1..Len(xs) : xs[k] = n

(***************************************************************************)
(* extract_wires                                                           *)
(***************************************************************************)
ExtractWires(ins, outs, gs) ==
    { ins[k] : k \in 1..Len(ins) } \cup { outs[k] : k \in 1..Len(outs) }
    \cup UNION { {gs[k].o} \cup { gs[k].ins[j] : j \in 1..Len(gs[k].ins) } : k \in 1..Len(gs) }

(***************************************************************************)
(* build_controllability                                                   *)
(***************************************************************************)
\* A variant that starts the primary inputs at 0
CCInitZero(n, ins) == IF InList(n, ins) THEN 0 ELSE Inf

\* The initial value of CC0[n] and of CC1[n]
CCInit(n, ins) == IF InList(n, ins) THEN 1 ELSE Inf

\* A variant that tests AND before NAND and OR before NOR
CtrlRuleShortFirst(gt) ==
    IF Contains("AND", gt) THEN "AND"
    ELSE IF Contains("NAND", gt) THEN "NAND"
    ELSE IF Contains("OR", gt) THEN "OR"
    ELSE IF Contains("NOR", gt) THEN "NOR"
    ELSE IF Contains("XOR", gt) THEN "XOR"
    ELSE IF Contains("INV", gt) \/ Contains("NOT", gt) THEN "INV"
    ELSE IF Contains("BUF", gt) THEN "BUF"
    ELSE "DEFAULT"

\* The branch of the if/elif chain that a kind takes; gt is gtype.upper()
CtrlRule(gt) ==
    IF Contains("NAND", gt) THEN "NAND"
    ELSE IF Contains("AND", gt) THEN "AND"
    ELSE IF Contains("NOR", gt) THEN "NOR"
    ELSE IF Contains("OR", gt) THEN "OR"
    ELSE IF Contains("XOR", gt) THEN "XOR"
    ELSE IF Contains("INV", gt) \/ Contains("NOT", gt) THEN "INV"
    ELSE IF Contains("BUF", gt) THEN "BUF"
    ELSE "DEFAULT"

Raised == [ok |-> FALSE, new0 |-> 0, new1 |-> 0]

\* The body of the try: new0 and new1 of a branch on the lists c0 and c1,
\* or the exception the branch raises (min of an empty list, an index or an
\* unpacking that the list's length does not allow).
CtrlCandidate(rule, c0, c1) ==
    CASE rule = "NAND" ->
            IF c0 = << >> THEN Raised
            ELSE [ok |-> TRUE, new0 |-> Plus(1, MinOf(c0)), new1 |-> Plus(1, SumOf(c1))]
      [] rule = "AND" ->
            IF c1 = << >> THEN Raised
            ELSE [ok |-> TRUE, new0 |-> Plus(1, SumOf(c0)), new1 |-> Plus(1, MinOf(c1))]
      [] rule = "NOR" ->
            IF c0 = << >> THEN Raised
            ELSE [ok |-> TRUE, new0 |-> Plus(1, SumOf(c1)), new1 |-> Plus(1, MinOf(c0))]
      [] rule = "OR" ->
            IF c0 = << >> THEN Raised
            ELSE [ok |-> TRUE, new0 |-> Plus(1, MinOf(c0)), new1 |-> Plus(1, SumOf(c1))]
      [] rule = "XOR" ->
            IF Len(c0) # 2 THEN Raised
            ELSE [ok |-> TRUE,
                  new0 |-> Plus(1, Min2(Plus(c0[1], c1[2]), Plus(c1[1], c0[2]))),
                  new1 |-> Plus(1, Min2(Plus(c0[1], c0[2]), Plus(c1[1], c1[2])))]
      [] rule = "INV" ->
            IF c1 = << >> THEN Raised
            ELSE [ok |-> TRUE, new0 |-> Plus(1, c1[1]), new1 |-> Plus(1, c0[1])]
      [] rule = "BUF" ->
            IF c0 = << >> THEN Raised
            ELSE [ok |-> TRUE, new0 |-> Plus(1, c0[1]), new1 |-> Plus(1, c1[1])]
      [] OTHER ->
            IF c1 = << >> THEN Raised
            ELSE [ok |-> TRUE, new0 |-> Plus(1, c1[1]), new1 |-> Plus(1, c0[1])]

\* Lines 79-99 for one gate on the current maps
\* (the rule and the two lists are bound as values, to be evaluated once)
CtrlGateCandidate(g, cc0, cc1) ==
    CHOOSE r \in { CtrlCandidate(rule, c0, c1) :
                     rule \in { CtrlRule(Upper(g.gtype)) },
                     c0 \in { [k \in 1..Len(g.ins) |-> cc0[g.ins[k]]] },
                     c1 \in { [k \in 1..Len(g.ins) |-> cc1[g.ins[k]]] } } : TRUE

\* Variants of the guard, as slips of the comparison would make it
ImprovesOrEqual(new, old) == ~Less(old, new)

ImprovesAnyChange(new, old) == new # old

ImprovesReversed(new, old) == Less(old, new)

\* The test that guards a write: the candidate against the stored value
Improves(new, old) == Less(new, old)

\* A variant that forgets `changed = True`
MarkChangedNever(flag, wrote) == flag

\* A variant that sets the flag at every gate, written to or not
MarkChangedAlways(flag, wrote) == TRUE

\* The flag after a gate: `changed = True` beside each write
MarkChanged(flag, wrote) == flag \/ wrote

\* A variant that sets `changed` for a write to CC0 only
CtrlStoreFlagsCC0(g, c, cc0, cc1, flag) ==
    LET w0 == Improves(c.new0, cc0[g.o])
        w1 == Improves(c.new1, cc1[g.o])
    IN  [CC0 |-> IF w0 THEN [cc0 EXCEPT ![g.o] = c.new0] ELSE cc0,
         CC1 |-> IF w1 THEN [cc1 EXCEPT ![g.o] = c.new1] ELSE cc1,
         changed |-> MarkChanged(flag, w0)]

\* Lines 102-105: the candidate c of gate g against the stored values
CtrlStore(g, c, cc0, cc1, flag) ==
    LET w0 == Improves(c.new0, cc0[g.o])
        w1 == Improves(c.new1, cc1[g.o])
    IN  [CC0 |-> IF w0 THEN [cc0 EXCEPT ![g.o] = c.new0] ELSE cc0,
         CC1 |-> IF w1 THEN [cc1 EXCEPT ![g.o] = c.new1] ELSE cc1,
         changed |-> MarkChanged(MarkChanged(flag, w0), w1)]

\* One iteration of the for loop of build_controllability
CtrlVisit(g, cc0, cc1, flag) ==
    CHOOSE r \in { IF ~c.ok THEN [CC0 |-> cc0, CC1 |-> cc1, changed |-> flag]
                   ELSE CtrlStore(g, c, cc0, cc1, flag) :
                     c \in { CtrlGateCandidate(g, cc0, cc1) } } : TRUE

\* The for loop of lines 78-105 from gate k on
RECURSIVE CtrlSweep(_, _, _, _, _)
CtrlSweep(gs, k, cc0, cc1, flag) ==
    IF k > Len(gs) THEN [CC0 |-> cc0, CC1 |-> cc1, changed |-> flag]
    ELSE LET v == CtrlVisit(gs[k], cc0, cc1, flag)
         IN  CtrlSweep(gs, k + 1, v.CC0, v.CC1, v.changed)

\* The while loop of lines 76-105
RECURSIVE CtrlLoop(_, _, _, _)
CtrlLoop(gs, cc0, cc1, flag) ==
    IF ~flag THEN [CC0 |-> cc0, CC1 |-> cc1]
    ELSE LET v == CtrlSweep(gs, 1, cc0, cc1, FALSE)
         IN  CtrlLoop(gs, v.CC0, v.CC1, v.changed)

\* build_controllability as a function of its arguments
BuildControllability(ns, ins, gs) ==
    CtrlLoop(gs, [n \in ns |-> CCInit(n, ins)], [n \in ns |-> CCInit(n, ins)], TRUE)

(***************************************************************************)
(* The netlists the relaxations are run on: every list of at most MaxGates *)
(* distinct gates of the catalog, with primary inputs a, b and primary     *)
(* output d.                                                                *)
(***************************************************************************)
GateCatalog ==
    << Gate("AND", "d", <<"a", "b">>),
       Gate("INV", "d", <<"a">>),
       Gate("MYGATE", "c", <<"a">>),
       Gate("XOR", "d", <<"a", "c">>),
       Gate("XOR", "d", <<"a", "b", "c">>),
       Gate("nand2_x1", "c", <<"a", "b">>),
       Gate("NOR", "d", <<"c", "b">>),
       Gate("OR", "d", <<"c", "a">>),
       Gate("BUF", "a", <<"b">>),
       Gate("BUF", "c", <<"d">>),
       Gate("AND", "d", << >>),
       Gate("NOT", "d", <<"c", "a">>),
       Gate("XNOR", "c", <<"a", "b">>),
       Gate("AND3", "d", <<"a", "b", "c">>) >>

CatalogGates == { GateCatalog[k] : k \in 1..Len(GateCatalog) }

GateLists ==
    { gs \in UNION { [1..n -> CatalogGates] : n \in 0..MaxGates } :
        \A j, k \in 1..Len(gs) : j # k => gs[j] # gs[k] }

Init ==
    /\ signal = "" /\ result = << >>
    /\ lines = << >> /\ lineno = 1 /\ section = "None" /\ fanout_list = << >>
    /\ inputs = <<"a", "b">>
    /\ outputs = <<"d">>
    /\ gates \in GateLists
    /\ nets = ExtractWires(inputs, outputs, gates)
    /\ CC0 = [n \in nets |-> CCInit(n, inputs)]
    /\ CC1 = [n \in nets |-> CCInit(n, inputs)]
    /\ CO = << >>
    /\ changed = TRUE
    /\ gi = Len(gates) + 1
    /\ pc = "ctrl"

Frame == UNCHANGED <<signal, result, lines, lineno, section, inputs, outputs,
                     gates, fanout_list, nets>>

\* `while changed:` taken: `changed = False` and the for loop starts
CtrlSweepBegin ==
    /\ pc = "ctrl" /\ gi > Len(gates) /\ changed
    /\ changed' = FALSE
    /\ gi' = 1
    /\ UNCHANGED <<pc, CC0, CC1, CO>>
    /\ Frame

\* A gate whose candidate raises: `except: continue`
CtrlGateSkipped ==
    /\ pc = "ctrl" /\ gi <= Len(gates)
    /\ ~CtrlGateCandidate(gates[gi], CC0, CC1).ok
    /\ gi' = gi + 1
    /\ UNCHANGED <<pc, CC0, CC1, CO, changed>>
    /\ Frame

\* A gate whose candidate is computed and compared with the stored values
CtrlGateRelaxed ==
    /\ pc = "ctrl" /\ gi <= Len(gates)
    /\ CtrlGateCandidate(gates[gi], CC0, CC1).ok
    /\ \E v \in {CtrlVisit(gates[gi], CC0, CC1, changed)} :
         /\ CC0' = v.CC0
         /\ CC1' = v.CC1
         /\ changed' = v.changed
    /\ gi' = gi + 1
    /\ UNCHANGED <<pc, CO>>
    /\ Frame

\* `while changed:` not taken: ctrl is built and returned
CtrlReturn ==
    /\ pc = "ctrl" /\ gi > Len(gates) /\ ~changed
    /\ pc' = "ctrl_ret"
    /\ UNCHANGED <<CC0, CC1, CO, changed, gi>>
    /\ Frame

(***************************************************************************)
(* build_observability                                                     *)
(***************************************************************************)
\* The initial value of CO[n]
\* A variant that starts every net, primary outputs too, at infinity
COInitAllInf(n, outs) == Inf

COInit(n, outs) == IF InList(n, outs) THEN 1 ELSE Inf

\* The branch of the if/elif chain of lines 126-134; gt is gtype.upper()
ObsRule(gt) ==
    IF Contains("AND", gt) \/ Contains("NAND", gt) THEN "AND"
    ELSE IF Contains("OR", gt) \/ Contains("NOR", gt) THEN "OR"
    ELSE IF Contains("XOR", gt) \/ Contains("XNOR", gt) THEN "XOR"
    ELSE "OTHER"

\* A variant that gives each input its own controllability, not the other's
ObsPairOwn(rule, coo, c0i1, c1i1, c0i2, c1i2) ==
    CASE rule = "AND" -> [n1 |-> Plus(Plus(coo, c1i1), 1), n2 |-> Plus(Plus(coo, c1i2), 1)]
      [] rule = "OR"  -> [n1 |-> Plus(Plus(coo, c0i1), 1), n2 |-> Plus(Plus(coo, c0i2), 1)]
      [] rule = "XOR" ->
            LET m == Min2(Plus(c0i2, c1i2), Plus(c0i1, c1i1))
            IN  [n1 |-> Plus(Plus(coo, m), 1), n2 |-> Plus(Plus(coo, m), 1)]
      [] OTHER -> [n1 |-> Plus(coo, 1), n2 |-> Plus(coo, 1)]

\* n1 and n2 of a gate with at least two inputs, from CO[o] and the
\* controllabilities of its first two inputs
ObsPair(rule, coo, c0i1, c1i1, c0i2, c1i2) ==
    CASE rule = "AND" -> [n1 |-> Plus(Plus(coo, c1i2), 1), n2 |-> Plus(Plus(coo, c1i1), 1)]
      [] rule = "OR"  -> [n1 |-> Plus(Plus(coo, c0i2), 1), n2 |-> Plus(Plus(coo, c0i1), 1)]
      [] rule = "XOR" ->
            LET m == Min2(Plus(c0i2, c1i2), Plus(c0i1, c1i1))
            IN  [n1 |-> Plus(Plus(coo, m), 1), n2 |-> Plus(Plus(coo, m), 1)]
      [] OTHER -> [n1 |-> Plus(coo, 1), n2 |-> Plus(coo, 1)]

\* ins[0], ins[1] of line 123 raises IndexError on an empty list
ObsRaises(g) == Len(g.ins) = 0

\* Lines 135-138: n1 and n2 against the stored values of i1 and i2, in turn
ObsStore(i1, i2, n, co, flag) ==
    LET w1  == Improves(n.n1, co[i1])
        co1 == IF w1 THEN [co EXCEPT ![i1] = n.n1] ELSE co
        w2  == Improves(n.n2, co1[i2])
    IN  [CO |-> IF w2 THEN [co1 EXCEPT ![i2] = n.n2] ELSE co1,
         changed |-> MarkChanged(MarkChanged(flag, w1), w2)]

\* A variant that takes the last two inputs of a gate, not the first two
ObsVisitLastTwo(g, co, cc0, cc1, flag) ==
    IF ObsRaises(g) THEN [CO |-> co, changed |-> flag]
    ELSE IF Len(g.ins) = 1
    THEN LET v == Plus(co[g.o], 1)
             w == Improves(v, co[g.ins[1]])
         IN  [CO |-> IF w THEN [co EXCEPT ![g.ins[1]] = v] ELSE co,
              changed |-> MarkChanged(flag, w)]
    ELSE LET i1 == g.ins[Len(g.ins) - 1]
             i2 == g.ins[Len(g.ins)]
         IN  ObsStore(i1, i2, ObsPair(ObsRule(Upper(g.gtype)), co[g.o],
                                      cc0[i1], cc1[i1], cc0[i2], cc1[i2]), co, flag)

\* One iteration of the for loop of build_observability
ObsVisit(g, co, cc0, cc1, flag) ==
    IF ObsRaises(g) THEN [CO |-> co, changed |-> flag]
    ELSE IF Len(g.ins) = 1
    THEN LET v == Plus(co[g.o], 1)
             w == Improves(v, co[g.ins[1]])
         IN  [CO |-> IF w THEN [co EXCEPT ![g.ins[1]] = v] ELSE co,
              changed |-> MarkChanged(flag, w)]
    ELSE CHOOSE r \in { ObsStore(g.ins[1], g.ins[2], n, co, flag) :
                          n \in { ObsPair(ObsRule(Upper(g.gtype)), co[g.o],
                                          cc0[g.ins[1]], cc1[g.ins[1]],
                                          cc0[g.ins[2]], cc1[g.ins[2]]) } } : TRUE

\* The for loop of lines 115-140 from gate k on
RECURSIVE ObsSweep(_, _, _, _, _, _)
ObsSweep(gs, k, co, cc0, cc1, flag) ==
    IF k > Len(gs) THEN [CO |-> co, changed |-> flag]
    ELSE LET v == ObsVisit(gs[k], co, cc0, cc1, flag)
         IN  ObsSweep(gs, k + 1, v.CO, cc0, cc1, v.changed)

\* The while loop of lines 113-140
RECURSIVE ObsLoop(_, _, _, _, _)
ObsLoop(gs, co, cc0, cc1, flag) ==
    IF ~flag THEN co
    ELSE LET v == ObsSweep(gs, 1, co, cc0, cc1, FALSE)
         IN  ObsLoop(gs, v.CO, cc0, cc1, v.changed)

\* build_observability as a function of its arguments
BuildObservability(ns, outs, cc0, cc1, gs) ==
    ObsLoop(gs, [n \in ns |-> COInit(n, outs)], cc0, cc1, TRUE)

\* run(): build_observability is called with the ctrl just returned
ObsCall ==
    /\ pc = "ctrl_ret"
    /\ CO' = [n \in nets |-> COInit(n, outputs)]
    /\ changed' = TRUE
    /\ gi' = Len(gates) + 1
    /\ pc' = "obs"
    /\ UNCHANGED <<CC0, CC1>>
    /\ Frame

ObsSweepBegin ==
    /\ pc = "obs" /\ gi > Len(gates) /\ changed
    /\ changed' = FALSE
    /\ gi' = 1
    /\ UNCHANGED <<pc, CC0, CC1, CO>>
    /\ Frame

ObsGateSkipped ==
    /\ pc = "obs" /\ gi <= Len(gates)
    /\ ObsRaises(gates[gi])
    /\ gi' = gi + 1
    /\ UNCHANGED <<pc, CC0, CC1, CO, changed>>
    /\ Frame

ObsGateRelaxed ==
    /\ pc = "obs" /\ gi <= Len(gates)
    /\ ~ObsRaises(gates[gi])
    /\ \E v \in {ObsVisit(gates[gi], CO, CC0, CC1, changed)} :
         /\ CO' = v.CO
         /\ changed' = v.changed
    /\ gi' = gi + 1
    /\ UNCHANGED <<pc, CC0, CC1>>
    /\ Frame

ObsReturn ==
    /\ pc = "obs" /\ gi > Len(gates) /\ ~changed
    /\ pc' = "done"
    /\ UNCHANGED <<CC0, CC1, CO, changed, gi>>
    /\ Frame

Next ==
    \/ CtrlSweepBegin
    \/ CtrlGateSkipped
    \/ CtrlGateRelaxed
    \/ CtrlReturn
    \/ ObsCall
    \/ ObsSweepBegin
    \/ ObsGateSkipped
    \/ ObsGateRelaxed
    \/ ObsReturn

Spec == Init /\ [][Next]_vars

\* The interpreter runs the loops to their end: a step that can be taken is taken
FairSpec == Spec /\ WF_vars(Next)

(***************************************************************************)
(* C1 (stated as claimed; the code violates it).  expand_vector on         *)
(* name[msb:lsb] returns name[msb], ..., name[lsb]: every index from msb   *)
(* to lsb inclusive, stepping toward lsb, |msb - lsb| + 1 names in all;    *)
(* a token without a bracket suffix is returned as a singleton.            *)
(***************************************************************************)
AbsDiff(x, y) == IF x >= y THEN x - y ELSE y - x

AllIndices(m) ==
    [k \in 1..(AbsDiff(m.msb, m.lsb) + 1) |->
        m.base \o "[" \o IntToStr(IF m.msb >= m.lsb THEN m.msb - (k - 1) ELSE m.msb + (k - 1)) \o "]"]

C1_ExpandsEveryIndex ==
    pc = "expand_ret" =>
        LET m == VectorMatch(signal) IN
        IF m.ok THEN result = AllIndices(m) ELSE result = << signal >>

(***************************************************************************)
(* Netlist shape used by the claims on the relaxations.                    *)
(***************************************************************************)
\* i -> o for every input i of a gate with output o
Edges(gs) == UNION { { <<gs[k].ins[j], gs[k].o>> : j \in 1..Len(gs[k].ins) } : k \in 1..Len(gs) }

\* The transitive closure of a relation given as a set of pairs
RECURSIVE Closure(_)
Closure(R) ==
    LET R2 == R \cup { <<e[1], f[2]>> : e \in R, f \in { y \in R : \E x \in R : x[2] = y[1] } }
        R3 == { p \in R2 : p \in R \/ \E e \in R, f \in R : e[1] = p[1] /\ e[2] = f[1] /\ f[2] = p[2] }
    IN  IF R3 = R THEN R ELSE Closure(R3)

\* No gate output feeds, through gates, one of that gate's own inputs
Acyclic(gs) == \A p \in Closure(Edges(gs)) : p[1] # p[2]

\* A step of the for loop of build_controllability is about to visit gates[gi]
AtCtrlGate == pc = "ctrl" /\ gi <= Len(gates)

\* A step of the for loop of build_observability is about to visit gates[gi]
AtObsGate == pc = "obs" /\ gi <= Len(gates)

\* The controllabilities of the inputs of g, in order
InCC0(g) == [k \in 1..Len(g.ins) |-> CC0[g.ins[k]]]

InCC1(g) == [k \in 1..Len(g.ins) |-> CC1[g.ins[k]]]

(***************************************************************************)
(* C2 (stated as claimed; the code violates it).  A gate whose kind        *)
(* contains XOR, case-insensitively, and that has exactly two inputs a, b  *)
(* gets the candidates 1 + min(CC0a+CC1b, CC1a+CC0b) for CC0(o) and        *)
(* 1 + min(CC0a+CC0b, CC1a+CC1b) for CC1(o): the visit stores each where   *)
(* it is smaller than the stored value.                                    *)
(***************************************************************************)
C2_XorCandidates ==
    [][ (AtCtrlGate /\ Contains("XOR", Upper(gates[gi].gtype)) /\ Len(gates[gi].ins) = 2) =>
          LET g  == gates[gi]
              a0 == CC0[g.ins[1]]
              a1 == CC1[g.ins[1]]
              b0 == CC0[g.ins[2]]
              b1 == CC1[g.ins[2]]
              x0 == Plus(1, Min2(Plus(a0, b1), Plus(a1, b0)))
              x1 == Plus(1, Min2(Plus(a0, b0), Plus(a1, b1)))
          IN  /\ CC0' = [CC0 EXCEPT ![g.o] = Min2(@, x0)]
              /\ CC1' = [CC1 EXCEPT ![g.o] = Min2(@, x1)] ]_vars

(***************************************************************************)
(* C3.  On a combinationally acyclic netlist build_controllability         *)
(* returns and then build_observability returns: each loop reaches a sweep *)
(* that leaves `changed` false and exits.                                   *)
(***************************************************************************)
C3_Terminates ==
    Acyclic(gates) => (<>(pc = "ctrl_ret" /\ ~changed) /\ <>(pc = "done" /\ ~changed))

\* Both loops have exited on an acyclic netlist that needed several sweeps
C3_Witness ==
    /\ pc = "done" /\ ~changed
    /\ Acyclic(gates) /\ Len(gates) = MaxGates
    /\ \E j, k \in 1..Len(gates) : j < k /\ InList(gates[k].o, gates[j].ins)
    /\ CC0["d"] # Inf /\ \A n \in nets : CO[n] # Inf

(***************************************************************************)
(* C4.  Monotonicity: every write to CC0(n), CC1(n) or CO(n) during the    *)
(* relaxations stores a value strictly smaller than the one it replaces,   *)
(* so no stored value ever increases.                                      *)
(***************************************************************************)
C4_WritesDecrease ==
    [][ /\ \A n \in nets : CC0'[n] # CC0[n] => Less(CC0'[n], CC0[n])
        /\ \A n \in nets : CC1'[n] # CC1[n] => Less(CC1'[n], CC1[n])
        /\ pc = "obs" => \A n \in nets : CO'[n] # CO[n] => Less(CO'[n], CO[n]) ]_vars

\* A finite value has been replaced by a smaller one: AND gave d the pair
\* (3, 2) and the INV visited next lowers CC0(d) to 2
C4_Witness ==
    /\ pc = "ctrl" /\ gi = 3 /\ changed
    /\ gates[1] = Gate("AND", "d", <<"a", "b">>)
    /\ gates[2] = Gate("INV", "d", <<"a">>)
    /\ CC0["d"] = 2 /\ CC1["d"] = 2

(***************************************************************************)
(* C5.  Order independence: on an acyclic netlist the CC0, CC1 and CO maps *)
(* that the run returns are those of the same gates taken in catalog       *)
(* order.  The specification runs every order of every set of at most      *)
(* MaxGates gates, so all orders of a set return the same maps.            *)
(***************************************************************************)
\* The gates of gs in the order of the catalog
Canonical(gs) == SelectSeq(GateCatalog, LAMBDA g : InList(g, gs))

C5_OrderIndependent ==
    (pc = "done" /\ Acyclic(gates)) =>
        LET canon == Canonical(gates)
            r     == BuildControllability(nets, inputs, canon)
        IN  /\ CC0 = r.CC0
            /\ CC1 = r.CC1
            /\ CO = BuildObservability(nets, outputs, r.CC0, r.CC1, canon)

\* A finished run on a list that is not in catalog order and in which a gate
\* reads a net driven by a gate that comes later in the list
C5_Witness ==
    /\ pc = "done" /\ Acyclic(gates) /\ gates # Canonical(gates)
    /\ \E j, k \in 1..Len(gates) :
          /\ j < k /\ InList(gates[k].o, gates[j].ins)
          /\ CC0[gates[j].o] # Inf /\ CC1[gates[j].o] # Inf
          /\ CO[gates[k].o] # Inf

(***************************************************************************)
(* C6.  For every primary input p, CC0(p) = CC1(p) = 1 in every state of   *)
(* the controllability relaxation and in the returned maps, also when p is *)
(* the output of a gate.                                                    *)
(***************************************************************************)
C6_PrimaryInputsStayOne ==
    \A k \in 1..Len(inputs) : CC0[inputs[k]] = 1 /\ CC1[inputs[k]] = 1

\* build_controllability has returned on a netlist in which a gate with a
\* computable candidate drives a primary input
C6_Witness ==
    /\ pc = "ctrl_ret"
    /\ \E k \in 1..Len(gates) :
          /\ InList(gates[k].o, inputs)
          /\ CtrlGateCandidate(gates[k], CC0, CC1).ok
          /\ CtrlGateCandidate(gates[k], CC0, CC1).new0 # Inf

(***************************************************************************)
(* C7 (stated as claimed; the code violates it).  A gate whose input count *)
(* does not meet the arity of its rule (XOR: exactly 2 inputs; INV/NOT and *)
(* BUF: exactly 1 input) is skipped: its visit changes neither CC0 nor CC1.*)
(***************************************************************************)
ArityMismatch(g) ==
    LET gt == Upper(g.gtype) IN
    \/ Contains("XOR", gt) /\ Len(g.ins) # 2
    \/ (Contains("INV", gt) \/ Contains("NOT", gt) \/ Contains("BUF", gt)) /\ Len(g.ins) # 1

C7_ArityMismatchSkipped ==
    [][ (AtCtrlGate /\ ArityMismatch(gates[gi])) => (CC0' = CC0 /\ CC1' = CC1) ]_vars

(***************************************************************************)
(* C8.  In a controllability sweep the candidate pair of a gate is the     *)
(* rule of its kind, matched case-insensitively in the order NAND, AND,    *)
(* NOR, OR, INV/NOT, BUF, default:                                         *)
(*   NAND (1 + min CC0, 1 + sum CC1)    AND (1 + sum CC0, 1 + min CC1)     *)
(*   NOR  (1 + sum CC1, 1 + min CC0)    OR  (1 + min CC0, 1 + sum CC1)     *)
(*   INV/NOT (1 + CC1(in), 1 + CC0(in)) BUF (1 + CC0(in), 1 + CC1(in))     *)
(*   any other kind (1 + CC1(in0), 1 + CC0(in0)),                          *)
(* infinite absorbing in sums, and the visit stores each candidate where   *)
(* it is smaller than the stored value.  Hence AND out(d) in(a b) on       *)
(* primary inputs ends with CC0 = 3, CC1 = 2, INV out(d) in(a) with 2, 2   *)
(* and MYGATE out(c) in(a) with 2, 2.                                      *)
(***************************************************************************)
C8Pair(g) ==
    LET gt  == Upper(g.gtype)
        c0  == InCC0(g)
        c1  == InCC1(g)
    IN  IF Contains("NAND", gt) THEN <<Plus(1, MinOf(c0)), Plus(1, SumOf(c1))>>
        ELSE IF Contains("AND", gt) THEN <<Plus(1, SumOf(c0)), Plus(1, MinOf(c1))>>
        ELSE IF Contains("NOR", gt) THEN <<Plus(1, SumOf(c1)), Plus(1, MinOf(c0))>>
        ELSE IF Contains("OR", gt) THEN <<Plus(1, MinOf(c0)), Plus(1, SumOf(c1))>>
        ELSE IF Contains("INV", gt) \/ Contains("NOT", gt) THEN <<Plus(1, c1[1]), Plus(1, c0[1])>>
        ELSE IF Contains("BUF", gt) THEN <<Plus(1, c0[1]), Plus(1, c1[1])>>
        ELSE <<Plus(1, c1[1]), Plus(1, c0[1])>>

CtrlReturned == pc \in {"ctrl_ret", "obs", "done"}

C8Scenarios ==
    /\ (CtrlReturned /\ gates = << Gate("AND", "d", <<"a", "b">>) >>) => (CC0["d"] = 3 /\ CC1["d"] = 2)
    /\ (CtrlReturned /\ gates = << Gate("INV", "d", <<"a">>) >>) => (CC0["d"] = 2 /\ CC1["d"] = 2)
    /\ (CtrlReturned /\ gates = << Gate("MYGATE", "c", <<"a">>) >>) => (CC0["c"] = 2 /\ CC1["c"] = 2)

C8_CandidateOfKind ==
    /\ [][ (AtCtrlGate /\ Len(gates[gi].ins) >= 1) =>
             LET g == gates[gi]
                 e == C8Pair(g)
             IN  /\ CC0' = [CC0 EXCEPT ![g.o] = Min2(@, e[1])]
                 /\ CC1' = [CC1 EXCEPT ![g.o] = Min2(@, e[2])] ]_vars
    /\ []C8Scenarios

\* build_controllability has returned on a list with a lower-case NAND kind
\* feeding a NOR: c = NAND(a, b) is (2, 3) and d = NOR(c, b) is (5, 2)
C8_Witness ==
    /\ pc = "ctrl_ret"
    /\ gates = << Gate("NOR", "d", <<"c", "b">>), Gate("nand2_x1", "c", <<"a", "b">>) >>
    /\ CC0["c"] = 2 /\ CC1["c"] = 3
    /\ CC0["d"] = 5 /\ CC1["d"] = 2

(***************************************************************************)
(* C9.  In an observability sweep, for a gate with output o: with a single *)
(* input the candidate is CO(in) = CO(o) + 1 whatever the kind; with       *)
(* exactly two inputs i1, i2 the candidates are CO(o) + CC1(i2) + 1 and    *)
(* CO(o) + CC1(i1) + 1 for AND/NAND, CO(o) + CC0(i2) + 1 and               *)
(* CO(o) + CC0(i1) + 1 for OR/NOR, and CO(o) + 1 for both for any other    *)
(* kind that is not XOR; a candidate is stored only if strictly smaller    *)
(* than the stored value.  Hence INV out(d) in(a) with d a primary output  *)
(* ends with CO(d) = 1, CO(a) = 2 and AND out(d) in(a b) with              *)
(* CO(a) = CO(b) = 3.                                                       *)
(***************************************************************************)
C9IsXor(g) == Contains("XOR", Upper(g.gtype)) \/ Contains("XNOR", Upper(g.gtype))

C9Pair(g) ==
    LET gt  == Upper(g.gtype)
        coo == CO[g.o]
        i1  == g.ins[1]
        i2  == g.ins[2]
    IN  IF Contains("AND", gt)
        THEN <<Plus(Plus(coo, CC1[i2]), 1), Plus(Plus(coo, CC1[i1]), 1)>>
        ELSE IF Contains("OR", gt)
        THEN <<Plus(Plus(coo, CC0[i2]), 1), Plus(Plus(coo, CC0[i1]), 1)>>
        ELSE <<Plus(coo, 1), Plus(coo, 1)>>

C9Scenarios ==
    /\ (pc = "done" /\ gates = << Gate("INV", "d", <<"a">>) >>) => (CO["d"] = 1 /\ CO["a"] = 2)
    /\ (pc = "done" /\ gates = << Gate("AND", "d", <<"a", "b">>) >>) => (CO["a"] = 3 /\ CO["b"] = 3)

C9_ObsCandidates ==
    /\ [][ (AtObsGate /\ Len(gates[gi].ins) = 1) =>
             CO' = [CO EXCEPT ![gates[gi].ins[1]] = Min2(@, Plus(CO[gates[gi].o], 1))] ]_vars
    /\ [][ (AtObsGate /\ Len(gates[gi].ins) = 2 /\ ~C9IsXor(gates[gi])) =>
             LET g == gates[gi]
                 e == C9Pair(g)
             IN  CO' = [n \in nets |->
                          LET v == IF n = g.ins[1] THEN Min2(CO[n], e[1]) ELSE CO[n]
                          IN  IF n = g.ins[2] THEN Min2(v, e[2]) ELSE v] ]_vars
    /\ []C9Scenarios

\* build_observability has returned on c = MYGATE(a), d = OR(c, a): the OR
\* gives c the candidate 1 + CC0(a) + 1 = 3 and a the candidate
\* 1 + CC0(c) + 1 = 4, the single-input gate gives a the candidate CO(c) + 1
C9_Witness ==
    /\ pc = "done"
    /\ gates = << Gate("MYGATE", "c", <<"a">>), Gate("OR", "d", <<"c", "a">>) >>
    /\ CO["d"] = 1 /\ CO["c"] = 3 /\ CO["a"] = 4 /\ CO["b"] = Inf

\* The catalog lines that are not of the form <kind> out(<net>...) in(<net>...)
C10MalformedLines == { "INV out(c)", "OUTPUT d", "a b[2:0]" }

\* Line k follows a `Complete Paths` header with no other header in between
C10InGateSection(ls, k) ==
    \E h \in 1..(k - 1) :
        /\ StartsWith(ls[h], "#") /\ Contains("Complete Paths", ls[h])
        /\ \A j \in (h + 1)..(k - 1) : ~StartsWith(ls[j], "#")

C10Malformed(ls, k) == ls[k] \in C10MalformedLines /\ C10InGateSection(ls, k)

RemoveAt(ls, k) == SubSeq(ls, 1, k - 1) \o SubSeq(ls, k + 1, Len(ls))

\* C10: a line of the gate section that does not have the form
\* <kind> out(<net>...) in(<net>...) is skipped without aborting: the step
\* that reads it adds no Gate record, leaves inputs and outputs alone and
\* goes on to the next line; and what parse_sections returns is what it
\* returns for the same lines without the malformed one.
C10_MalformedLineSkipped ==
    /\ [][(pc = "parse" /\ lineno <= Len(lines) /\ C10Malformed(lines, lineno))
            => /\ pc' = "parse" /\ lineno' = lineno + 1
               /\ gates' = gates /\ inputs' = inputs /\ outputs' = outputs]_vars
    /\ [](pc = "parsed" =>
            \A k \in 1..Len(lines) :
                C10Malformed(lines, k) =>
                    LET r == ParseSections(RemoveAt(lines, k))
                    IN  /\ inputs = r.inputs /\ outputs = r.outputs /\ gates = r.gates
                        /\ fanout_list = FanoutList(r.gates))

\* A malformed gate line was passed and a later line still gave its record
C10_Witness ==
    /\ pc = "parsed"
    /\ \E k \in 1..(Len(lines) - 1) :
          /\ C10Malformed(lines, k)
          /\ GateMatch(lines[k + 1]).ok
          /\ Len(gates) >= 1

(***************************************************************************)
(* C11 (stated as claimed; the code violates it).  In an observability     *)
(* sweep a gate of kind XOR or XNOR with exactly two inputs i1, i2 gives   *)
(* both inputs the candidate                                               *)
(* CO(o) + min(CC0(i2)+CC1(i2), CC0(i1)+CC1(i1)) + 1, stored where it is   *)
(* smaller than the stored value, and not the OR/NOR candidates.           *)
(***************************************************************************)
C11_XorObsCandidates ==
    [][ (AtObsGate /\ Len(gates[gi].ins) = 2 /\ C9IsXor(gates[gi])) =>
          LET g == gates[gi]
              m == Min2(Plus(CC0[g.ins[2]], CC1[g.ins[2]]), Plus(CC0[g.ins[1]], CC1[g.ins[1]]))
              x == Plus(Plus(CO[g.o], m), 1)
          IN  CO' = [n \in nets |-> IF n \in {g.ins[1], g.ins[2]} THEN Min2(CO[n], x) ELSE CO[n]] ]_vars

(***************************************************************************)
(* C12.  A primary output that is an input of no gate has CO = 1 in every  *)
(* state of build_observability, from its initialization to the returned   *)
(* map.                                                                    *)
(***************************************************************************)
InObs == pc \in {"obs", "done"}

Consumed(n) == \E k \in 1..Len(gates) : n \in { gates[k].ins[j] : j \in 1..Len(gates[k].ins) }

C12_FreeOutputsStayOne ==
    InObs => \A k \in 1..Len(outputs) : ~Consumed(outputs[k]) => CO[outputs[k]] = 1

\* build_observability has returned, it stored finite values on other nets,
\* and the primary output d, which no gate reads, is still at 1
C12_Witness ==
    /\ pc = "done"
    /\ ~Consumed("d") /\ CO["d"] = 1
    /\ \E n \in nets : CO[n] # Inf /\ CO[n] > 1

(***************************************************************************)
(* C13.  A gate-section line that matches the gate grammar with k output   *)
(* nets appends exactly k Gate records, one per listed output net in the   *)
(* listed order, each with the line's kind and the same full ordered list  *)
(* of input nets; the records are in the gate list in the order of their   *)
(* lines.                                                                  *)
(***************************************************************************)
\* The well-formed catalog lines read by hand: kind, output nets, input nets
C13Grammar ==
    { <<"AND out(d) in(a b)", "AND", <<"d">>, <<"a", "b">>>>,
      <<"FA out(s co) in(a b c)", "FA", <<"s", "co">>, <<"a", "b", "c">>>>,
      <<"AND out( ) in(a)", "AND", << >>, <<"a">>>>,
      <<" inv  out( c )\tin( a ) ", "inv", <<"c">>, <<"a">>>> }

C13WellFormed(ls, k) == C10InGateSection(ls, k) /\ \E e \in C13Grammar : e[1] = ls[k]

C13Records(line) ==
    LET e == CHOOSE x \in C13Grammar : x[1] = line
    IN  [j \in 1..Len(e[3]) |-> [gtype |-> e[2], o |-> e[3][j], ins |-> e[4]]]

\* The records of the well-formed gate lines among the first k lines, in line order
RECURSIVE C13UpTo(_, _)
C13UpTo(ls, k) ==
    IF k = 0 THEN << >>
    ELSE C13UpTo(ls, k - 1) \o (IF C13WellFormed(ls, k) THEN C13Records(ls[k]) ELSE << >>)

C13_OneRecordPerOutput ==
    /\ [][(pc = "parse" /\ lineno <= Len(lines) /\ C13WellFormed(lines, lineno))
            => gates' = gates \o C13Records(lines[lineno])]_vars
    /\ [](pc = "parsed" => gates = C13UpTo(lines, Len(lines)))

\* A two-output line and a later one-output line were parsed: three records
C13_Witness ==
    /\ pc = "parsed"
    /\ \E k \in 1..(Len(lines) - 1) :
          /\ C10InGateSection(lines, k) /\ lines[k] = "FA out(s co) in(a b c)"
          /\ lines[k + 1] = "AND out(d) in(a b)"
    /\ gates = << Gate("FA", "s", <<"a", "b", "c">>), Gate("FA", "co", <<"a", "b", "c">>),
                  Gate("AND", "d", <<"a", "b">>) >>

(***************************************************************************)
(* C14.  For a gate with three or more inputs an observability visit       *)
(* computes candidates only for its first two listed inputs, as the visit  *)
(* of the gate cut to these two inputs does (for AND/NAND and OR/NOR each  *)
(* from the other's controllability); the inputs at positions 3 and beyond *)
(* receive no candidate.  Hence a net that is neither a primary output nor *)
(* the sole or one of the first two inputs of any gate ends with CO        *)
(* infinite.                                                               *)
(***************************************************************************)
FirstTwo(g) == { g.ins[j] : j \in 1..(IF Len(g.ins) >= 2 THEN 2 ELSE Len(g.ins)) }

C14_OnlyFirstTwoInputs ==
    /\ [][ (AtObsGate /\ Len(gates[gi].ins) >= 3) =>
             LET g   == gates[gi]
                 cut == [g EXCEPT !.ins = SubSeq(g.ins, 1, 2)]
             IN  /\ \A n \in nets \ FirstTwo(g) : CO'[n] = CO[n]
                 /\ CO' = ObsVisit(cut, CO, CC0, CC1, changed).CO
                 /\ ~C9IsXor(g) =>
                      LET e == C9Pair(g)
                      IN  CO' = [n \in nets |->
                                   LET v == IF n = g.ins[1] THEN Min2(CO[n], e[1]) ELSE CO[n]
                                   IN  IF n = g.ins[2] THEN Min2(v, e[2]) ELSE v] ]_vars
    /\ [](pc = "done" =>
            \A n \in nets :
                (~InList(n, outputs) /\ \A k \in 1..Len(gates) : n \notin FirstTwo(gates[k]))
                    => CO[n] = Inf)

\* build_observability has returned on a list with a three-input gate whose
\* first input got a finite CO and whose third input is left infinite
C14_Witness ==
    /\ pc = "done"
    /\ \E k \in 1..Len(gates) :
          /\ Len(gates[k].ins) >= 3
          /\ CO[gates[k].ins[1]] # Inf
          /\ CO[gates[k].ins[3]] = Inf
          /\ \A j \in 1..Len(gates) : gates[k].ins[3] \notin FirstTwo(gates[j])

(***************************************************************************)
(* C15 (as claimed; refuted).  On a netlist with a combinational cycle a   *)
(* relaxation never reaches a fixed point: build_controllability or        *)
(* build_observability does not exit.                                      *)
(***************************************************************************)
C15_CycleNeverExits == ~Acyclic(gates) => pc # "done"

(***************************************************************************)
(* C15 (amended).  Also on a netlist with a combinational cycle both       *)
(* relaxations reach a sweep without an update and exit: every write       *)
(* stores a strictly smaller value and every candidate is at least 2, so   *)
(* the updates run out.                                                    *)
(***************************************************************************)
C15_CycleTerminates ==
    (~Acyclic(gates)) => (<>(pc = "ctrl_ret" /\ ~changed) /\ <>(pc = "done" /\ ~changed))

\* Both loops have exited on a netlist with a cycle whose nets were relaxed
C15_Witness ==
    /\ pc = "done" /\ ~changed
    /\ \E p \in Closure(Edges(gates)) :
          p[1] = p[2] /\ CC0[p[1]] # Inf /\ CC1[p[1]] # Inf /\ CO[p[1]] # Inf

(***************************************************************************)
(* C16.  parse_sections has exactly one active section at a time: a `#`    *)
(* line containing "Primary Inputs", "Primary Outputs" or "Complete Paths" *)
(* switches to the input, output or gate section, any other `#` line       *)
(* resets to no active section, and a `#` line never contributes tokens; a *)
(* line that is not a header leaves the section alone and contributes to   *)
(* the inputs, outputs or gate list only while the section of that list is *)
(* active, and to none of them while no section is active.                 *)
(***************************************************************************)
\* The section each header of the catalog opens, read by hand
C16Headers ==
    { <<"# Primary Inputs", "INPUT">>, <<"# Primary Outputs", "OUTPUT">>,
      <<"# Complete Paths", "GATES">>, <<"# FAN IN", "None">> }

C16IsHeader(line) == \E e \in C16Headers : e[1] = line

C16Opens(line) == (CHOOSE e \in C16Headers : e[1] = line)[2]

\* The section active when line k is read: that of the last header before it
C16ActiveAt(ls, k) ==
    IF \E h \in 1..(k - 1) : C16IsHeader(ls[h])
    THEN C16Opens(ls[CHOOSE h \in 1..(k - 1) :
                        C16IsHeader(ls[h]) /\ \A j \in (h + 1)..(k - 1) : ~C16IsHeader(ls[j])])
    ELSE "None"

C16_OneActiveSection ==
    /\ [](pc = "parse" => section = C16ActiveAt(lines, lineno))
    /\ [][(pc = "parse" /\ lineno <= Len(lines) /\ C16IsHeader(lines[lineno]))
            => /\ section' = C16Opens(lines[lineno])
               /\ inputs' = inputs /\ outputs' = outputs /\ gates' = gates]_vars
    /\ [][(pc = "parse" /\ lineno <= Len(lines) /\ ~C16IsHeader(lines[lineno]))
            => /\ section' = section
               /\ inputs' # inputs => section = "INPUT"
               /\ outputs' # outputs => section = "OUTPUT"
               /\ gates' # gates => section = "GATES"]_vars

\* A token line after `# Primary Inputs` went to inputs, the same line
\* after a later `# FAN IN` went nowhere
C16_Witness ==
    /\ pc = "parsed"
    /\ lines = << "# Primary Inputs", "a b[2:0]", "# FAN IN", "a b[2:0]" >>
    /\ inputs = << "a", "b[2]" >> /\ outputs = << >> /\ gates = << >>

(***************************************************************************)
(* C17.  In every state of both relaxations CC0, CC1 and (once             *)
(* build_observability has started) CO are defined for exactly the nets of *)
(* the net universe, the primary inputs, the primary outputs and every     *)
(* output and input of a gate, and every stored value is infinite or an    *)
(* integer >= 1: none is 0 or negative.                                    *)
(***************************************************************************)
NetUniverse ==
    { n \in {"a", "b", "c", "d"} :
        \/ InList(n, inputs) \/ InList(n, outputs)
        \/ \E k \in 1..Len(gates) : gates[k].o = n \/ InList(n, gates[k].ins) }

InfiniteOrPositive(v) == v = Inf \/ (v \in Int /\ v >= 1)

InRelaxation == pc \in {"ctrl", "ctrl_ret", "obs", "done"}

C17_MapsTotalAndPositive ==
    /\ InRelaxation =>
         /\ nets = NetUniverse
         /\ DOMAIN CC0 = NetUniverse /\ DOMAIN CC1 = NetUniverse
         /\ \A n \in NetUniverse : InfiniteOrPositive(CC0[n]) /\ InfiniteOrPositive(CC1[n])
    /\ InObs =>
         /\ DOMAIN CO = NetUniverse
         /\ \A n \in NetUniverse : InfiniteOrPositive(CO[n])

\* Both relaxations have returned with finite and infinite values in the
\* maps, on a netlist that does not name the net c
C17_Witness ==
    /\ pc = "done"
    /\ NetUniverse = {"a", "b", "d"}
    /\ CC0["d"] # Inf /\ CC1["d"] # Inf
    /\ CO["a"] # Inf /\ CO["b"] = Inf

(***************************************************************************)
(* C18.  What build_controllability returns is an exact fixed point: for   *)
(* every net n that is not a primary input, CC0(n) (resp. CC1(n)) is the   *)
(* minimum, over the gates with output n that are not skipped, of the      *)
(* gate's CC0 (resp. CC1) candidate computed from the returned values, and *)
(* is infinite when n has no such gate.                                    *)
(***************************************************************************)
\* The least value of a set of values, infinite for the empty set
C18Min(S) ==
    IF S \ {Inf} = {} THEN Inf
    ELSE CHOOSE v \in S \ {Inf} : \A w \in S \ {Inf} : v <= w

\* The gates with output n that have at least one input: those not skipped
C18Drivers(n) == { k \in 1..Len(gates) : gates[k].o = n /\ Len(gates[k].ins) >= 1 }

C18_ExactFixedPoint ==
    CtrlReturned =>
        \A n \in nets :
            ~InList(n, inputs) =>
                /\ CC0[n] = C18Min({ C8Pair(gates[k])[1] : k \in C18Drivers(n) })
                /\ CC1[n] = C18Min({ C8Pair(gates[k])[2] : k \in C18Drivers(n) })

\* build_controllability has returned on a list in which d has two drivers
\* with different candidates and c has only a skipped gate or none
C18_Witness ==
    /\ pc = "ctrl_ret"
    /\ \E j, k \in C18Drivers("d") :
          /\ C8Pair(gates[j])[1] # C8Pair(gates[k])[1]
          /\ C8Pair(gates[j])[1] # Inf /\ C8Pair(gates[k])[1] # Inf
    /\ "c" \in nets /\ C18Drivers("c") = {} /\ CC0["c"] = Inf
====
